---- MODULE Spec2Model ----
(***************************************************************************)
(* geek_api: a model of the authentication layer (app/auth.py), the        *)
(* category handlers (app/routers/categories.py), the product listings     *)
(* (app/routers/products.py) and the helpers of app/dependencies.py.       *)
(*                                                                         *)
(* Modelling conventions                                                   *)
(*  - The persistent store is the three tables users, categories and       *)
(*    products.  A row is a record; a table is a sequence of rows in       *)
(*    insertion order, so that select(...).first() is "the first row of    *)
(*    the sequence that matches".                                          *)
(*  - A response is the record last = [op, status, detail, ...].  A        *)
(*    Python exception that is not an HTTPException leaves the handler     *)
(*    unhandled and the framework answers 500 "Internal Server Error".     *)
(*  - The settings object (app/config.py) and the names of the model       *)
(*    classes are taken as resolving to what config.py / models.py         *)
(*    declare: SECRET_KEY is secret_key, Product is Produto.               *)
(*  - Strings that pass through generate_slug are sequences of characters  *)
(*    of Alphabet; every other string is opaque.  Response details are     *)
(*    written without their accents.                                       *)
(*  - SpecAuth, SpecCat, SpecList, SpecRace and SpecSlug are behaviours of *)
(*    the same variables: the token and user routes from empty tables, the *)
(*    category routes and the listings from tables earlier requests have   *)
(*    filled, two interleaved writers, generate_slug by itself; and        *)
(*    SpecSession, the life of the session get_session gives a request.    *)
(***************************************************************************)
EXTENDS Integers, Sequences, FiniteSets, TLC

VARIABLES users, categories, products, now, held, last, slugIn, slugOut, listed, inflight, scope

vars == <<users, categories, products, now, held, last, slugIn, slugOut, listed, inflight, scope>>

\* ------------------------------------------------------------------------
\* Bounds of the model
\* ------------------------------------------------------------------------
MaxLen == 3          \* longest string given to generate_slug
MaxTime == 2         \* the clock runs 0..MaxTime (minutes)

\* ------------------------------------------------------------------------
\* Strings and generate_slug  (app/dependencies.py)
\* ------------------------------------------------------------------------
\* One character of each class generate_slug treats differently:
\*   "a" lowercase ASCII letter, "B" uppercase ASCII letter, "9" digit,
\*   "U+00E1" a-acute (NFKD: "a" + combining acute accent), "U+00DF" sharp s
\*   (a non-ASCII letter NFKD leaves alone), " " space, "-" hyphen,
\*   "!" punctuation.
Alphabet == {"a", "B", "9", "U+00E1", "U+00DF", " ", "-", "!"}

RECURSIVE StringsUpTo(_)
StringsUpTo(n) ==
    IF n = 0 THEN {<<>>}
    ELSE LET shorter == StringsUpTo(n - 1)
         IN  shorter \cup {Append(s, c) : s \in {t \in shorter : Len(t) = n - 1}, c \in Alphabet}

Strings == StringsUpTo(MaxLen)

\* unicodedata.normalize('NFKD', ch).encode('ascii', 'ignore').decode('ascii')
\* for one character: the ASCII characters that survive.
AsciiFold(ch) ==
    CASE ch = "U+00E1" -> <<"a">>
      [] ch = "U+00DF" -> <<>>
      [] OTHER    -> <<ch>>

RECURSIVE NormalizeAscii(_)
NormalizeAscii(s) ==
    IF s = <<>> THEN <<>> ELSE AsciiFold(Head(s)) \o NormalizeAscii(Tail(s))

\* str.lower() on an ASCII string
LowerChar(ch) == IF ch = "B" THEN "b" ELSE ch

Lower(s) == [i \in 1..Len(s) |-> LowerChar(s[i])]

\* the character class [a-z0-9]
IsSlugChar(ch) == ch \in {"a", "b", "9"}

\* re.sub(r'[^a-z0-9]+', '-', text): every maximal run of characters outside
\* [a-z0-9] becomes one hyphen.
RECURSIVE SubNonAlnum(_)
SubNonAlnum(s) ==
    IF s = <<>> THEN <<>>
    ELSE IF IsSlugChar(Head(s)) THEN <<Head(s)>> \o SubNonAlnum(Tail(s))
    ELSE IF Len(s) > 1 /\ ~IsSlugChar(s[2]) THEN SubNonAlnum(Tail(s))
    ELSE <<"-">> \o SubNonAlnum(Tail(s))

\* re.sub(r'-+', '-', text): every run of hyphens becomes one hyphen.
RECURSIVE SubHyphens(_)
SubHyphens(s) ==
    IF s = <<>> THEN <<>>
    ELSE IF Head(s) = "-" /\ Len(s) > 1 /\ s[2] = "-" THEN SubHyphens(Tail(s))
    ELSE <<Head(s)>> \o SubHyphens(Tail(s))

RECURSIVE LStripHyphen(_)
LStripHyphen(s) ==
    IF s # <<>> /\ Head(s) = "-" THEN LStripHyphen(Tail(s)) ELSE s

RECURSIVE RStripHyphen(_)
RStripHyphen(s) ==
    IF s # <<>> /\ s[Len(s)] = "-" THEN RStripHyphen(SubSeq(s, 1, Len(s) - 1)) ELSE s

\* text.strip('-')
StripHyphens(s) == RStripHyphen(LStripHyphen(s))

\* A slugify that trims the hyphens before it substitutes the separators.
generate_slug_strip_first(name) ==
    SubHyphens(SubNonAlnum(StripHyphens(Lower(NormalizeAscii(name)))))

generate_slug(name) ==
    StripHyphens(SubHyphens(SubNonAlnum(Lower(NormalizeAscii(name)))))

\* ------------------------------------------------------------------------
\* Settings  (app/config.py)
\* ------------------------------------------------------------------------
SECRET_KEY == "a8fd9e8c7b6a5f4r3e2d1c0b9a8f9e7d6c85f4a3b2c1d0e9f8g7h6i5j4k3l2m1n0o9p8q7r6s5t4u3v2w1x0y9z8"
ALGORITHM == "HS256"
ACCESS_TOKEN_EXPIRE_MINUTES == 30

\* ------------------------------------------------------------------------
\* Inputs
\* ------------------------------------------------------------------------
Usernames == {"alice", "bob"}
Emails == {"alice@geek.store", "bob@geek.store"}
Passwords == {"hunter22", "s3cret!"}
MaxUsers == 2        \* rows the users table may hold

\* a claims dict without the "sub" key
NoSub == "<no sub>"

\* expires_delta: None, or a timedelta of some minutes
NoDelta == [given |-> FALSE, minutes |-> 0]
Delta(m) == [given |-> TRUE, minutes |-> m]
Deltas == {NoDelta} \cup {Delta(m) : m \in {-1, 1, 2}}

\* Python truth value of an Optional[timedelta]: None and timedelta(0) are falsy
Truthy(delta) == delta.given /\ delta.minutes # 0

\* ------------------------------------------------------------------------
\* CredentialStore  (app/auth.py: verify_password, get_password_hash)
\* ------------------------------------------------------------------------
\* A bcrypt hash is a one-way image of the password; the salt is left out.
get_password_hash(password) == [scheme |-> "bcrypt", digest_of |-> password]

verify_password(plain_password, hashed_password) ==
    hashed_password.scheme = "bcrypt" /\ hashed_password.digest_of = plain_password

\* ------------------------------------------------------------------------
\* TokenService  (app/auth.py: create_access_token, decode_access_token)
\* ------------------------------------------------------------------------
\* jwt.encode: the compact string carries the claims, the algorithm of its
\* header, and a signature that only the signing key reproduces.
jwt_encode(claims, key, algorithm) == [claims |-> claims, signed_with |-> key, alg |-> algorithm]

\* no Authorization header
NoToken == [claims |-> [sub |-> NoSub, exp |-> 0], signed_with |-> "", alg |-> ""]

\* a token an outsider signs with a key of his own
ForgedToken == jwt_encode([sub |-> "alice", exp |-> ACCESS_TOKEN_EXPIRE_MINUTES],
                          "key of an outsider", ALGORITHM)

\* jwt.decode: JWTError on a signature or algorithm mismatch, and
\* ExpiredSignatureError (a JWTError) when exp < now; the claims otherwise.
jwt_decode(token, key, algorithms, t) ==
    IF token.signed_with # key \/ token.alg \notin algorithms
        THEN [error |-> "JWTError", payload |-> NoToken.claims]
    ELSE IF token.claims.exp < t
        THEN [error |-> "ExpiredSignatureError", payload |-> NoToken.claims]
    ELSE [error |-> "", payload |-> token.claims]

\* A token issuer that encodes the expiry alone and leaves the data out.
create_access_token_without_data(data, expires_delta, t) ==
    LET expire == IF Truthy(expires_delta)
                      THEN t + expires_delta.minutes
                      ELSE t + ACCESS_TOKEN_EXPIRE_MINUTES
    IN  jwt_encode([sub |-> NoSub, exp |-> expire], SECRET_KEY, ALGORITHM)

\* data is the dict {"sub": data.sub} (or {} when data.sub = NoSub); t is
\* datetime.utcnow().
create_access_token(data, expires_delta, t) ==
    LET expire == IF Truthy(expires_delta)
                      THEN t + expires_delta.minutes
                      ELSE t + ACCESS_TOKEN_EXPIRE_MINUTES
    IN  jwt_encode([sub |-> data.sub, exp |-> expire], SECRET_KEY, ALGORITHM)

\* The outcome of a dependency or helper: status 0 is a normal return (of
\* username / of the user with id uid), 500 an exception that is no
\* HTTPException, anything else the HTTPException raised.
Returned(username, uid) == [status |-> 0, detail |-> "", username |-> username, uid |-> uid]
Raised(status, detail) == [status |-> status, detail |-> detail, username |-> "", uid |-> 0]
Unhandled == Raised(500, "Internal Server Error")

\* A verifier that lets the ExpiredSignatureError pass.
decode_access_token_ignoring_expiry(token, t) ==
    LET r == jwt_decode(token, SECRET_KEY, {ALGORITHM}, token.claims.exp)
    IN  IF r.error # "" THEN Raised(401, "Token invalido")
        ELSE IF r.payload.sub = NoSub THEN Raised(401, "Token invalido")
        ELSE Returned(r.payload.sub, 0)

decode_access_token(token, t) ==
    LET r == jwt_decode(token, SECRET_KEY, {ALGORITHM}, t)
    IN  IF r.error # "" THEN Raised(401, "Token invalido")
        ELSE IF r.payload.sub = NoSub THEN Raised(401, "Token invalido")
        ELSE Returned(r.payload.sub, 0)

\* ------------------------------------------------------------------------
\* The users table and its lookups  (app/models.py: User; app/auth.py)
\* ------------------------------------------------------------------------
\* session.exec(select(...).where(...)).first(): the first of the matching
\* rows, 0 for None.  A user's id is its position in the table: ids are
\* handed out in order and no user row is ever deleted.
FirstIndex(matching) ==
    IF matching = {} THEN 0 ELSE CHOOSE i \in matching : \A j \in matching : i <= j

get_user_by_username(us, username) ==
    FirstIndex({i \in 1..Len(us) : us[i].username = username})

get_user_by_email(us, email) ==
    FirstIndex({i \in 1..Len(us) : us[i].email = email})

\* ------------------------------------------------------------------------
\* IdentityResolver and SessionGuard  (app/auth.py)
\* ------------------------------------------------------------------------
\* oauth2_scheme answers a request without bearer credentials itself.
get_current_user(token, us, t) ==
    IF token = NoToken THEN Raised(401, "Not authenticated")
    ELSE LET token_data == decode_access_token(token, t)
         IN  IF token_data.status # 0 THEN token_data
             ELSE LET uid == get_user_by_username(us, token_data.username)
                  IN  IF uid = 0
                          THEN Raised(401, "Nao foi possivel validar as credenciais")
                          ELSE Returned(us[uid].username, uid)

\* A guard that hands every resolved user on, active or not.
get_current_user_unguarded(token, us, t) == get_current_user(token, us, t)

get_current_active_user(token, us, t) ==
    LET current_user == get_current_user(token, us, t)
    IN  IF current_user.status # 0 THEN current_user
        ELSE IF ~us[current_user.uid].is_active THEN Raised(400, "Usuario inativo")
        ELSE current_user

\* ------------------------------------------------------------------------
\* Login  (app/auth.py: authenticate_user, authenticate_and_get_token)
\* ------------------------------------------------------------------------
\* The authentication the docstring describes: look the user up by the
\* username, verify the password; None (uid 0) when either fails.
authenticate_user_by_lookup(us, username, password) ==
    LET uid == get_user_by_username(us, username)
    IN  IF uid = 0 THEN Returned("", 0)
        ELSE IF ~verify_password(password, us[uid].hashed_password) THEN Returned("", 0)
        ELSE Returned(us[uid].username, uid)

\* Line 114 compares the column with the class User instead of the username
\* argument, and line 115 calls exec on the class Session instead of the
\* session argument: Session.exec(statement) binds statement to self and
\* raises TypeError (no statement argument) whatever the arguments are.
\* Neither username nor password is read before the exception.
authenticate_user(us, username, password) == Unhandled

create_access_token_for_user(user, t) ==
    create_access_token([sub |-> user.username], Delta(ACCESS_TOKEN_EXPIRE_MINUTES), t)

\* [resp, token]: the outcome and the token returned (NoToken when none is)
authenticate_and_get_token(us, username, password, t) ==
    LET user == authenticate_user(us, username, password)
    IN  IF user.status # 0 THEN [resp |-> user, token |-> NoToken]
        ELSE IF user.uid = 0
            THEN [resp |-> Raised(401, "Username ou senha incorretos"), token |-> NoToken]
        ELSE [resp |-> Returned(user.username, user.uid),
              token |-> create_access_token_for_user(us[user.uid], t)]

\* ------------------------------------------------------------------------
\* Registration  (app/auth.py: create_user, register_user)
\* ------------------------------------------------------------------------
NewUser(username, email, password) ==
    [username |-> username, email |-> email,
     hashed_password |-> get_password_hash(password), is_active |-> TRUE]

\* A create_user that checks the username and not the email.
create_user_without_email_check(us, username, email, password) ==
    IF get_user_by_username(us, username) # 0
        THEN [resp |-> Raised(400, "Username ja existe"), users |-> us]
    ELSE [resp |-> Returned(username, Len(us) + 1),
          users |-> Append(us, NewUser(username, email, password))]

\* [resp, users]: the outcome and the users table after the call
create_user(us, username, email, password) ==
    IF get_user_by_username(us, username) # 0
        THEN [resp |-> Raised(400, "Username ja existe"), users |-> us]
    ELSE IF get_user_by_email(us, email) # 0
        THEN [resp |-> Raised(400, "Email ja existe"), users |-> us]
    ELSE [resp |-> Returned(username, Len(us) + 1),
          users |-> Append(us, NewUser(username, email, password))]

register_user(us, username, email, password) == create_user(us, username, email, password)

\* ------------------------------------------------------------------------
\* State
\* ------------------------------------------------------------------------
\* held: what the client holds, the token of the latest issuance together
\* with the arguments and the time of that issuance.
NoHeld == [tok |-> NoToken, sub |-> NoSub, delta |-> NoDelta, at |-> 0]

\* The credentials a request presents: none, a forged token, the held token.
Creds == {"none", "forged", "held"}

Presented(cred) ==
    CASE cred = "held"   -> held.tok
      [] cred = "forged" -> ForgedToken
      [] OTHER           -> NoToken

\* last: the latest step, its request and its response.  status 200, 201 and
\* 204 are the success statuses of the routes.  username and password are
\* those of a login or registration, cred the credentials presented, token
\* the token a login returned, cat the category id of the path, kind and name
\* the name of the payload.
Response(op, outcome, ok_status) ==
    [op |-> op,
     status |-> IF outcome.status = 0 THEN ok_status ELSE outcome.status,
     detail |-> outcome.detail,
     username |-> "", password |-> "", cred |-> "none",
     token |-> NoToken, cat |-> 0, kind |-> "", name |-> <<>>]

NoRequest == Response("start", Returned("", 0), 0)

\* listed: the latest listing request (params) and the body it was answered
\* with, the dict of paginated_response or the list of the search; status
\* and detail of that answer are in last.
NoParams ==
    [search |-> <<>>, category_id |-> 0, franquia_id |-> <<>>, price_min |-> -1,
     price_max |-> -1, is_active |-> [given |-> FALSE, value |-> FALSE],
     order_by |-> "", order_direction |-> "", skip |-> 0, limit |-> 0, q |-> <<>>]

NoBody == [items |-> <<>>, total |-> 0, page |-> 0, pages |-> 0, per_page |-> 0]

NoListing == [params |-> NoParams, body |-> NoBody]

\* inflight: per worker, the write of a handler that has passed its
\* uniqueness checks and has not yet reached session.commit().
Procs == {1, 2}

NoWrite ==
    [op |-> "", username |-> "", email |-> "", password |-> "", cat |-> 0, name |-> <<>>]

\* scope: per worker, the request it serves as far as get_session is
\* concerned.  pc is where the request stands; session is the Session that
\* get_session yields and extra the Session its last line constructs, each
\* "none" (not constructed), "new" (constructed, no connection), "active"
\* (in a transaction, holding a connection of the engine's pool) or "closed";
\* used tells that the request has run a statement, path how it ended.
NoScope ==
    [pc |-> "idle", session |-> "none", extra |-> "none", used |-> FALSE, path |-> ""]

ReadIdle ==
    /\ listed = NoListing
    /\ inflight = [p \in Procs |-> NoWrite]
    /\ scope = [p \in Procs |-> NoScope]

StoreInit ==
    /\ users = <<>>
    /\ categories = <<>>
    /\ products = <<>>

SlugIdle ==
    /\ slugIn = <<>>
    /\ slugOut = <<>>

Init ==
    /\ StoreInit
    /\ now = 0
    /\ held = NoHeld
    /\ last = NoRequest
    /\ SlugIdle
    /\ ReadIdle

\* ------------------------------------------------------------------------
\* Steps of the authentication layer
\* ------------------------------------------------------------------------
\* datetime.utcnow() moves on
Tick ==
    /\ now < MaxTime
    /\ now' = now + 1
    /\ last' = Response("tick", Returned("", 0), 0)
    /\ UNCHANGED <<users, categories, products, held, slugIn, slugOut, listed, inflight, scope>>

\* create_access_token(data, expires_delta) called with data = {"sub": sub},
\* or data = {} when sub = NoSub; the caller keeps the token.
IssueToken(sub, delta) ==
    /\ held' = [tok |-> create_access_token([sub |-> sub], delta, now),
                sub |-> sub, delta |-> delta, at |-> now]
    /\ last' = [Response("issue", Returned("", 0), 200) EXCEPT !.username = sub]
    /\ UNCHANGED <<users, categories, products, now, slugIn, slugOut, listed, inflight, scope>>

\* POST /auth/register
Register(username, email, password) ==
    LET r == register_user(users, username, email, password)
    IN  /\ Len(r.users) <= MaxUsers
        /\ users' = r.users
        /\ last' = [Response("register", r.resp, 200) EXCEPT !.username = username]
        /\ UNCHANGED <<categories, products, now, held, slugIn, slugOut, listed, inflight, scope>>

\* POST /auth/login
Login(username, password) ==
    LET r == authenticate_and_get_token(users, username, password, now)
    IN  /\ held' = IF r.token = NoToken THEN held
                   ELSE [tok |-> r.token, sub |-> username,
                         delta |-> Delta(ACCESS_TOKEN_EXPIRE_MINUTES), at |-> now]
        /\ last' = [Response("login", r.resp, 200) EXCEPT
                        !.username = username, !.password = password, !.token = r.token]
        /\ UNCHANGED <<users, categories, products, now, slugIn, slugOut, listed, inflight, scope>>

\* GET /auth/me: a route behind Depends(get_current_active_user)
Me(cred) ==
    LET r == get_current_active_user(Presented(cred), users, now)
    IN  /\ last' = [Response("me", r, 200) EXCEPT !.username = r.username, !.cred = cred]
        /\ UNCHANGED <<users, categories, products, now, held, slugIn, slugOut, listed, inflight, scope>>

\* DELETE /auth/me: the caller's own account is deactivated, never removed
DeactivateMe(cred) ==
    LET r == get_current_active_user(Presented(cred), users, now)
    IN  /\ users' = IF r.status = 0
                        THEN [users EXCEPT ![r.uid].is_active = FALSE]
                        ELSE users
        /\ last' = [Response("deactivate", r, 200) EXCEPT !.username = r.username, !.cred = cred]
        /\ UNCHANGED <<categories, products, now, held, slugIn, slugOut, listed, inflight, scope>>

AuthNext ==
    \/ Tick
    \/ \E sub \in Usernames \cup {NoSub}, delta \in Deltas : IssueToken(sub, delta)
    \/ \E username \in Usernames, email \in Emails, password \in Passwords :
           Register(username, email, password)
    \/ \E username \in Usernames, password \in Passwords : Login(username, password)
    \/ \E cred \in Creds : Me(cred)
    \/ \E cred \in Creds : DeactivateMe(cred)

SpecAuth == Init /\ [][AuthNext]_vars

\* ------------------------------------------------------------------------
\* The categories and products tables  (app/models.py, app/dependencies.py)
\* ------------------------------------------------------------------------
MaxCategories == 2   \* rows the categories table may hold

\* Category names: "a" and a-acute share the slug "a", "B" has the slug "b",
\* "!" has the empty slug.
CatNames == {<<"a">>, <<"U+00E1">>, <<"B">>, <<"!">>}

CategoryIds == 1..(MaxCategories + 1)

\* Python values handed to the validators: a Session over the categories
\* table, or a str.
SessionOf(cats) == [type |-> "Session", rows |-> cats, value |-> <<>>]
Str(s) == [type |-> "str", rows |-> <<>>, value |-> s]

\* The row of the table whose id is category_id: its position, 0 for None.
CategoryIndex(cats, category_id) ==
    FirstIndex({i \in 1..Len(cats) : cats[i].id = category_id})

get_category_or_404(category_id, cats) ==
    LET category == CategoryIndex(cats, category_id)
    IN  IF category = 0 THEN Raised(404, "Categoria nao encontrada")
        ELSE Returned("", category)

\* session.exec on a value that is no Session raises AttributeError.
\* exclude_id = 0 stands for None.
validate_unique_category_name(name, session, exclude_id) ==
    IF session.type # "Session" THEN Unhandled
    ELSE LET existing == FirstIndex({i \in 1..Len(session.rows) :
                             /\ name.type = "str"
                             /\ session.rows[i].name = name.value
                             /\ (exclude_id # 0 => session.rows[i].id # exclude_id)})
         IN  IF existing # 0 THEN Raised(400, "Ja existe uma categoria com o nome")
             ELSE Returned("", 0)

\* A slug check that does not leave the category's own row out.
validate_unique_category_slug_of_all_rows(slug, session, exclude_id) ==
    IF session.type # "Session" THEN Unhandled
    ELSE LET existing == FirstIndex({i \in 1..Len(session.rows) :
                             /\ slug.type = "str"
                             /\ session.rows[i].slug = slug.value})
         IN  IF existing # 0 THEN Raised(400, "Ja existe uma categoria com o slug")
             ELSE Returned("", 0)

validate_unique_category_slug(slug, session, exclude_id) ==
    IF session.type # "Session" THEN Unhandled
    ELSE LET existing == FirstIndex({i \in 1..Len(session.rows) :
                             /\ slug.type = "str"
                             /\ session.rows[i].slug = slug.value
                             /\ (exclude_id # 0 => session.rows[i].id # exclude_id)})
         IN  IF existing # 0 THEN Raised(400, "Ja existe uma categoria com o slug")
             ELSE Returned("", 0)

\* the id the table gives a new row
NextCategoryId(cats) ==
    IF cats = <<>> THEN 1
    ELSE 1 + (CHOOSE m \in {cats[i].id : i \in 1..Len(cats)} :
                  \A i \in 1..Len(cats) : cats[i].id <= m)

\* ------------------------------------------------------------------------
\* Category handlers  (app/routers/categories.py)
\* ------------------------------------------------------------------------
\* [resp, categories].  Lines 141 and 145 call the validators as
\* (session, value) while their signatures are (value, session, exclude_id):
\* the validator runs with the name as its session.
create_category(cats, name) ==
    LET session == SessionOf(cats)
        unique_name == validate_unique_category_name(session, Str(name), 0)
        slug == generate_slug(name)
        unique_slug == validate_unique_category_slug(session, Str(slug), 0)
    IN  IF unique_name.status # 0 THEN [resp |-> unique_name, categories |-> cats]
        ELSE IF unique_slug.status # 0 THEN [resp |-> unique_slug, categories |-> cats]
        ELSE [resp |-> Returned("", Len(cats) + 1),
              categories |-> Append(cats, [id |-> NextCategoryId(cats),
                                           name |-> name, slug |-> slug])]

\* The payload of an update: kind "str" carries name, kind "null" carries
\* name = None, kinds "absent" and "unset" carry no name.  CategoryUpdate
\* declares name: Optional[str] = Field(...) without a default: where that
\* makes the field required the body without it is refused by the request
\* validation ("absent"), where it does not the field is left unset and
\* model_dump(exclude_unset=True) has no "name" key ("unset").
Payloads == {[kind |-> "str", name |-> n] : n \in CatNames}
                \cup {[kind |-> k, name |-> <<>>] : k \in {"null", "absent", "unset"}}

\* An update that renames and leaves the slug as it was.
update_category_keeping_slug(cats, category, payload) ==
    IF payload.kind = "null" THEN [resp |-> Unhandled, categories |-> cats]
    ELSE IF payload.kind = "unset" \/ payload.name = cats[category].name
        THEN [resp |-> Returned("", category), categories |-> cats]
    ELSE [resp |-> Returned("", category),
          categories |-> [cats EXCEPT ![category].name = payload.name]]

\* [resp, categories]; category is the position of the row the dependency
\* get_category_or_404 found.  A null name differs from the stored one, is no
\* duplicate of any, and generate_slug(None) raises TypeError in
\* unicodedata.normalize.  setattr and commit validate nothing: the lengths
\* Field(min_length, max_length) declares are no constraint of the table.
update_category(cats, category, payload) ==
    IF payload.kind = "null" THEN [resp |-> Unhandled, categories |-> cats]
    ELSE IF payload.kind = "unset" \/ payload.name = cats[category].name
        THEN [resp |-> Returned("", category), categories |-> cats]
    ELSE LET session == SessionOf(cats)
             unique_name == validate_unique_category_name(Str(payload.name), session,
                                                          cats[category].id)
             new_slug == generate_slug(payload.name)
             unique_slug == validate_unique_category_slug(Str(new_slug), session,
                                                          cats[category].id)
         IN  IF unique_name.status # 0 THEN [resp |-> unique_name, categories |-> cats]
             ELSE IF unique_slug.status # 0 THEN [resp |-> unique_slug, categories |-> cats]
             ELSE [resp |-> Returned("", category),
                   categories |-> [cats EXCEPT ![category].name = payload.name,
                                               ![category].slug = new_slug]]

RemoveAt(seq, i) == SubSeq(seq, 1, i - 1) \o SubSeq(seq, i + 1, Len(seq))

\* select(func.count(Product.id)).where(Product.category_id == category.id)
ProductCount(prods, category_id) ==
    Cardinality({i \in 1..Len(prods) : prods[i].category_id = category_id})

\* the detail of the refusal, an f-string around product_count
DeleteRefusal(product_count) ==
    "Nao e possivel deletar esta categoria. Ela possui " \o ToString(product_count)
        \o " produto(s) associado(s)."

\* A delete that does not look at the products.
delete_category_unchecked(cats, prods, category) ==
    [resp |-> Returned("", 0), categories |-> RemoveAt(cats, category)]

\* [resp, categories]; the products table is not written
delete_category(cats, prods, category) ==
    LET product_count == ProductCount(prods, cats[category].id)
    IN  IF product_count > 0
            THEN [resp |-> Raised(400, DeleteRefusal(product_count)), categories |-> cats]
            ELSE [resp |-> Returned("", 0), categories |-> RemoveAt(cats, category)]

\* ------------------------------------------------------------------------
\* The products table  (app/models.py: Produto)
\* ------------------------------------------------------------------------
MaxProducts == 2     \* rows the products table may hold

\* The texts of a product.  Text fields are strings over Alphabet.
Titles ==
    {[nome |-> <<"a">>, descricao |-> <<"B">>, franquia |-> <<"9">>],
     [nome |-> <<"B">>, descricao |-> <<"9">>, franquia |-> <<"a">>]}

Prices == {50, 100, 300}

\* A row of the table.  created_at is the time of the insert, and rows are
\* inserted in the order of their ids.
Produto(id, title, preco, category_id, is_active) ==
    [id |-> id, nome |-> title.nome, descricao |-> title.descricao,
     franquia |-> title.franquia, preco |-> preco, category_id |-> category_id,
     is_active |-> is_active, created_at |-> id]

\* ------------------------------------------------------------------------
\* Steps of the category routes
\* ------------------------------------------------------------------------
\* The tables as earlier requests left them: alice registered, bob registered
\* and deactivated; up to MaxCategories categories, each with the slug of its
\* name, with the unique names and unique, non-empty slugs the columns
\* declare; products that refer to a stored category.
SeedUsers ==
    <<NewUser("alice", "alice@geek.store", "hunter22"),
      [NewUser("bob", "bob@geek.store", "s3cret!") EXCEPT !.is_active = FALSE]>>

SeedRow(i, name) == [id |-> i, name |-> name, slug |-> generate_slug(name)]

SeedCategories ==
    {cats \in UNION {[1..n -> {SeedRow(i, name) : i \in 1..n, name \in CatNames}] :
                         n \in 0..MaxCategories} :
        /\ \A i \in 1..Len(cats) : cats[i].id = i /\ Len(cats[i].slug) >= 1
        /\ \A i, j \in 1..Len(cats) :
               i # j => cats[i].name # cats[j].name /\ cats[i].slug # cats[j].slug}

\* no product, one product of category 1, two products of category 1
SeedProducts ==
    LET first == Produto(1, [nome |-> <<"a">>, descricao |-> <<"B">>, franquia |-> <<"9">>],
                         100, 1, TRUE)
        second == Produto(2, [nome |-> <<"B">>, descricao |-> <<"9">>, franquia |-> <<"a">>],
                          50, 1, FALSE)
    IN  {<<>>, <<first>>, <<first, second>>}

CatInit ==
    /\ users = SeedUsers
    /\ categories \in SeedCategories
    /\ products \in SeedProducts
    /\ \A i \in 1..Len(products) : CategoryIndex(categories, products[i].category_id) # 0
    /\ now = 0
    /\ held = NoHeld
    /\ last = NoRequest
    /\ SlugIdle
    /\ ReadIdle

\* subjects a token is issued for: carol has no row in users
TokenSubjects == Usernames \cup {"carol", NoSub}

\* the tokens issued: one of the default lifetime for each subject, and one
\* for alice that has expired at its issuance
TokenRequests ==
    {[sub |-> sub, delta |-> NoDelta] : sub \in TokenSubjects}
        \cup {[sub |-> "alice", delta |-> Delta(-1)]}

CategoryResponse(op, outcome, ok_status, cred, category_id, payload) ==
    [Response(op, outcome, ok_status) EXCEPT
        !.cred = cred, !.cat = category_id, !.kind = payload.kind, !.name = payload.name]

\* POST /categories: Depends(get_current_active_user), then the handler
CreateCategory(cred, name) ==
    LET current_user == get_current_active_user(Presented(cred), users, now)
        r == IF current_user.status # 0
                 THEN [resp |-> current_user, categories |-> categories]
                 ELSE create_category(categories, name)
    IN  /\ Len(r.categories) <= MaxCategories
        /\ categories' = r.categories
        /\ last' = CategoryResponse("create_category", r.resp, 201, cred,
                                    r.resp.uid, [kind |-> "str", name |-> name])
        /\ UNCHANGED <<users, products, now, held, slugIn, slugOut, listed, inflight, scope>>

\* PUT /categories/{category_id}: the dependencies are solved in the order of
\* the parameters, get_category_or_404 before get_current_active_user; the
\* body is validated after the dependencies, and a body that lacks a required
\* field is answered 422 before the handler runs.
UpdateCategory(cred, category_id, payload) ==
    LET category == get_category_or_404(category_id, categories)
        current_user == get_current_active_user(Presented(cred), users, now)
        r == IF category.status # 0 THEN [resp |-> category, categories |-> categories]
             ELSE IF current_user.status # 0
                 THEN [resp |-> current_user, categories |-> categories]
             ELSE IF payload.kind = "absent"
                 THEN [resp |-> Raised(422, "Field required"), categories |-> categories]
             ELSE update_category(categories, category.uid, payload)
    IN  /\ categories' = r.categories
        /\ last' = CategoryResponse("update_category", r.resp, 200, cred, category_id, payload)
        /\ UNCHANGED <<users, products, now, held, slugIn, slugOut, listed, inflight, scope>>

\* DELETE /categories/{category_id}: the same order of dependencies
DeleteCategory(cred, category_id) ==
    LET category == get_category_or_404(category_id, categories)
        current_user == get_current_active_user(Presented(cred), users, now)
        r == IF category.status # 0 THEN [resp |-> category, categories |-> categories]
             ELSE IF current_user.status # 0
                 THEN [resp |-> current_user, categories |-> categories]
             ELSE delete_category(categories, products, category.uid)
    IN  /\ categories' = r.categories
        /\ last' = CategoryResponse("delete_category", r.resp, 204, cred, category_id,
                                    [kind |-> "", name |-> <<>>])
        /\ UNCHANGED <<users, products, now, held, slugIn, slugOut, listed, inflight, scope>>

CatNext ==
    \/ \E t \in TokenRequests : IssueToken(t.sub, t.delta)
    \/ \E cred \in Creds, name \in CatNames : CreateCategory(cred, name)
    \/ \E cred \in Creds, category_id \in CategoryIds, payload \in Payloads :
           UpdateCategory(cred, category_id, payload)
    \/ \E cred \in Creds, category_id \in CategoryIds : DeleteCategory(cred, category_id)

SpecCat == CatInit /\ [][CatNext]_vars

\* ------------------------------------------------------------------------
\* generate_slug applied to a string, and again to its own result
\* ------------------------------------------------------------------------
SlugInit ==
    /\ StoreInit
    /\ now = 0
    /\ held = NoHeld
    /\ last = NoRequest
    /\ slugIn \in Strings
    /\ slugOut = <<>>
    /\ ReadIdle

\* slugOut lists generate_slug(slugIn), generate_slug(generate_slug(slugIn))
Slugify ==
    /\ Len(slugOut) < 2
    /\ slugOut' = Append(slugOut,
                         generate_slug(IF slugOut = <<>> THEN slugIn ELSE slugOut[Len(slugOut)]))
    /\ UNCHANGED <<users, categories, products, now, held, last, slugIn, listed, inflight, scope>>

SpecSlug == SlugInit /\ [][Slugify]_vars

\* ------------------------------------------------------------------------
\* Query parameters  (app/dependencies.py: PaginationParams,
\* ProductFilterParams)
\* ------------------------------------------------------------------------
\* A query is the record of NoParams.  An Optional parameter that is not
\* given is None: <<>> for a string and 0 for category_id (the handler tests
\* both by truth value, which None, "" and 0 share), NoPrice for a price,
\* Unset for is_active.
NoPrice == -1
Unset == [given |-> FALSE, value |-> FALSE]
Given(value) == [given |-> TRUE, value |-> value]

PaginationParams(query) == [skip |-> query.skip, limit |-> query.limit]

\* Line 77 assigns price_min to max_preco; price_max is read nowhere.
ProductFilterParams(query) ==
    [search |-> query.search,
     category_id |-> query.category_id,
     franquia |-> query.franquia_id,
     min_preco |-> query.price_min,
     max_preco |-> query.price_min,
     is_active |-> query.is_active,
     order_by |-> query.order_by,
     order_direction |-> query.order_direction]

\* ------------------------------------------------------------------------
\* Listings  (app/routers/products.py, app/routers/categories.py,
\* app/dependencies.py: paginated_response)
\* ------------------------------------------------------------------------
Contains(text, term) ==
    \E i \in 0..(Len(text) - Len(term)) : SubSeq(text, i + 1, i + Len(term)) = term

\* column.ilike("%term%"): term occurs in the column, letter case apart
ILike(column, term) == Contains(Lower(column), Lower(term))

\* the where clauses of list_products, lines 63-89
Matches(p, filters) ==
    /\ filters.search # <<>>
           => \/ ILike(p.nome, filters.search)
              \/ ILike(p.descricao, filters.search)
              \/ ILike(p.franquia, filters.search)
    /\ filters.category_id # 0 => p.category_id = filters.category_id
    /\ filters.franquia # <<>> => ILike(p.franquia, filters.franquia)
    /\ filters.min_preco # NoPrice => p.preco >= filters.min_preco
    /\ filters.max_preco # NoPrice => p.preco <= filters.max_preco
    /\ IF filters.is_active.given
           THEN p.is_active = filters.is_active.value
           ELSE p.is_active = TRUE

\* The rows the statement selects.  The statement has no ORDER BY: the rows
\* come as the table scan yields them, in the order of their insertion.
RECURSIVE Select(_, _)
Select(prods, filters) ==
    IF prods = <<>> THEN <<>>
    ELSE IF Matches(Head(prods), filters)
        THEN <<Head(prods)>> \o Select(Tail(prods), filters)
    ELSE Select(Tail(prods), filters)

Min(a, b) == IF a <= b THEN a ELSE b

\* statement.offset(skip).limit(limit)
OffsetLimit(rows, skip, limit) == SubSeq(rows, skip + 1, Min(skip + limit, Len(rows)))

paginated_response(items, total, skip, limit) ==
    [items |-> items,
     total |-> total,
     page |-> IF limit > 0 THEN (skip \div limit) + 1 ELSE 1,
     pages |-> IF limit > 0 THEN (total + limit - 1) \div limit ELSE 1,
     per_page |-> limit]

\* [resp, body]
list_products(prods, pagination, filters) ==
    LET statement == Select(prods, filters)
        total == Len(statement)
        page_rows == OffsetLimit(statement, pagination.skip, pagination.limit)
    IN  [resp |-> Returned("", 0),
         body |-> paginated_response(page_rows, total, pagination.skip, pagination.limit)]

\* [resp, body].  Line 136 reads Product.franquia.ilke, an attribute the
\* column does not have: AttributeError while the statement is built, before
\* limit() of line 138 (called without its argument) and before any query.
search_products(prods, q, limit) == [resp |-> Unhandled, body |-> NoBody]

\* [resp, body].  Line 37 hands a column to select_from and line 38 calls
\* scalar() on the result of session.exec, which has no such method: the
\* handler raises before it reads a category.
list_categories(cats, pagination) == [resp |-> Unhandled, body |-> NoBody]

\* ------------------------------------------------------------------------
\* Steps of the listing routes
\* ------------------------------------------------------------------------
\* Two categories and up to MaxProducts products with ids in the order of
\* their insertion and the unique nome the column declares.
ListCategories2 == <<SeedRow(1, <<"a">>), SeedRow(2, <<"B">>)>>

ProductTables ==
    {prods \in UNION {[1..n -> {Produto(i, title, preco, category_id, is_active) :
                                    i \in 1..n, title \in Titles, preco \in Prices,
                                    category_id \in {1, 2}, is_active \in BOOLEAN}] :
                          n \in 0..MaxProducts} :
        /\ \A i \in 1..Len(prods) : prods[i].id = i
        /\ \A i, j \in 1..Len(prods) : i # j => prods[i].nome # prods[j].nome}

ListInit ==
    /\ users = <<>>
    /\ categories = ListCategories2
    /\ products \in ProductTables
    /\ now = 0
    /\ held = NoHeld
    /\ last = NoRequest
    /\ SlugIdle
    /\ ReadIdle

\* the query strings of GET /products
ProductQueries ==
    [search : {<<>>, <<"b">>},
     category_id : {0, 1},
     franquia_id : {<<>>, <<"A">>},
     price_min : {NoPrice, 50},
     price_max : {NoPrice, 200},
     is_active : {Unset, Given(TRUE), Given(FALSE)},
     order_by : {"created_at", "preco", "quantidade_estoque"},
     order_direction : {"asc", "desc"},
     skip : {0, 1},
     limit : {1, 2},
     q : {<<>>}]

\* GET /products
ListProducts(query) ==
    LET r == list_products(products, PaginationParams(query), ProductFilterParams(query))
    IN  /\ last' = Response("list_products", r.resp, 200)
        /\ listed' = [params |-> query, body |-> r.body]
        /\ UNCHANGED <<users, categories, products, now, held, slugIn, slugOut, inflight, scope>>

\* GET /products/search
SearchProducts(q, limit) ==
    LET r == search_products(products, q, limit)
    IN  /\ last' = Response("search_products", r.resp, 200)
        /\ listed' = [params |-> [NoParams EXCEPT !.q = q, !.limit = limit], body |-> r.body]
        /\ UNCHANGED <<users, categories, products, now, held, slugIn, slugOut, inflight, scope>>

\* GET /categories
ListCategories(skip, limit) ==
    LET query == [NoParams EXCEPT !.skip = skip, !.limit = limit]
        r == list_categories(categories, PaginationParams(query))
    IN  /\ last' = Response("list_categories", r.resp, 200)
        /\ listed' = [params |-> query, body |-> r.body]
        /\ UNCHANGED <<users, categories, products, now, held, slugIn, slugOut, inflight, scope>>

\* A listing writes nothing, so a behaviour is one request on one table.
ListNext ==
    \/ last = NoRequest /\ \E query \in ProductQueries : ListProducts(query)
    \/ last = NoRequest /\ \E q \in {<<"b">>, <<"9">>}, limit \in {1, 2} :
                                SearchProducts(q, limit)
    \/ last = NoRequest /\ \E skip \in {0, 1}, limit \in {1, 2} : ListCategories(skip, limit)

SpecList == ListInit /\ [][ListNext]_vars

\* ------------------------------------------------------------------------
\* Two requests at once  (app/auth.py: create_user;
\* app/routers/categories.py: create_category, update_category)
\* ------------------------------------------------------------------------
\* Each request has a session of its own (app/database.py: get_session).  A
\* handler reads the table in its uniqueness checks and writes at
\* session.commit(); another request may commit between the two.  The
\* columns username, email, name and slug are declared unique=True: a commit
\* that would store a second row with such a value raises IntegrityError,
\* which no handler catches.

\* session.add(db_user); session.commit() of create_user: [resp, users]
InsertUser(us, username, email, password) ==
    IF \E i \in 1..Len(us) : us[i].username = username \/ us[i].email = email
        THEN [resp |-> Unhandled, users |-> us]
        ELSE [resp |-> Returned(username, Len(us) + 1),
              users |-> Append(us, NewUser(username, email, password))]

\* setattr; session.add(category); session.commit() of update_category:
\* [resp, categories]
WriteCategory(cats, category_id, name) ==
    LET category == CategoryIndex(cats, category_id)
        slug == generate_slug(name)
    IN  IF \E i \in 1..Len(cats) :
               cats[i].id # category_id /\ (cats[i].name = name \/ cats[i].slug = slug)
            THEN [resp |-> Unhandled, categories |-> cats]
            ELSE [resp |-> Returned("", category),
                  categories |-> [cats EXCEPT ![category].name = name,
                                              ![category].slug = slug]]

\* alice is registered and holds a token; two categories are stored
RaceInit ==
    /\ users = <<NewUser("alice", "alice@geek.store", "hunter22")>>
    /\ categories = ListCategories2
    /\ products = <<>>
    /\ now = 0
    /\ held = [tok |-> create_access_token([sub |-> "alice"], NoDelta, 0),
               sub |-> "alice", delta |-> NoDelta, at |-> 0]
    /\ last = NoRequest
    /\ SlugIdle
    /\ ReadIdle

\* POST /auth/register up to the commit: the two checks of create_user.  A
\* request that fails a check is answered; one that passes has its user
\* pending.
RegisterCheck(p, username, email, password) ==
    /\ inflight[p] = NoWrite
    /\ IF get_user_by_username(users, username) # 0
           THEN /\ last' = [Response("register", Raised(400, "Username ja existe"), 200)
                               EXCEPT !.username = username]
                /\ UNCHANGED inflight
       ELSE IF get_user_by_email(users, email) # 0
           THEN /\ last' = [Response("register", Raised(400, "Email ja existe"), 200)
                               EXCEPT !.username = username]
                /\ UNCHANGED inflight
       ELSE /\ inflight' = [inflight EXCEPT ![p] =
                                [NoWrite EXCEPT !.op = "register", !.username = username,
                                                !.email = email, !.password = password]]
            /\ UNCHANGED last
    /\ UNCHANGED <<users, categories, products, now, held, slugIn, slugOut, listed, scope>>

\* ... and its commit
RegisterCommit(p) ==
    LET w == inflight[p]
        r == InsertUser(users, w.username, w.email, w.password)
    IN  /\ w.op = "register"
        /\ users' = r.users
        /\ inflight' = [inflight EXCEPT ![p] = NoWrite]
        /\ last' = [Response("register", r.resp, 200) EXCEPT !.username = w.username]
        /\ UNCHANGED <<categories, products, now, held, slugIn, slugOut, listed, scope>>

\* PUT /categories/{category_id} up to the commit.  A request that the
\* dependencies or the checks refuse, or that has nothing to rename, is
\* answered as in UpdateCategory; a rename that passes the checks is pending.
RenameCheck(p, cred, category_id, payload) ==
    LET category == get_category_or_404(category_id, categories)
        current_user == get_current_active_user(Presented(cred), users, now)
        r == IF category.status # 0 THEN [resp |-> category, categories |-> categories]
             ELSE IF current_user.status # 0
                 THEN [resp |-> current_user, categories |-> categories]
             ELSE IF payload.kind = "absent"
                 THEN [resp |-> Raised(422, "Field required"), categories |-> categories]
             ELSE update_category(categories, category.uid, payload)
    IN  /\ inflight[p] = NoWrite
        /\ IF r.categories # categories
               THEN /\ inflight' = [inflight EXCEPT ![p] =
                                        [NoWrite EXCEPT !.op = "update_category",
                                                        !.cat = category_id,
                                                        !.name = payload.name]]
                    /\ UNCHANGED last
               ELSE /\ last' = CategoryResponse("update_category", r.resp, 200, cred,
                                                category_id, payload)
                    /\ UNCHANGED inflight
        /\ UNCHANGED <<users, categories, products, now, held, slugIn, slugOut, listed, scope>>

\* ... and its commit
RenameCommit(p) ==
    LET w == inflight[p]
        r == WriteCategory(categories, w.cat, w.name)
    IN  /\ w.op = "update_category"
        /\ categories' = r.categories
        /\ inflight' = [inflight EXCEPT ![p] = NoWrite]
        /\ last' = CategoryResponse("update_category", r.resp, 200, "held", w.cat,
                                    [kind |-> "str", name |-> w.name])
        /\ UNCHANGED <<users, products, now, held, slugIn, slugOut, listed, scope>>

\* POST /categories fails in its first check and has no commit to wait for.
RaceNext ==
    \/ \E p \in Procs, username \in Usernames, email \in Emails, password \in Passwords :
           RegisterCheck(p, username, email, password)
    \/ \E p \in Procs : RegisterCommit(p)
    \/ \E p \in Procs, cred \in {"none", "held"}, category_id \in CategoryIds,
           payload \in Payloads : RenameCheck(p, cred, category_id, payload)
    \/ \E p \in Procs : RenameCommit(p)
    \/ \E cred \in {"none", "held"}, name \in CatNames : CreateCategory(cred, name)

SpecRace == RaceInit /\ [][RaceNext]_vars

\* ------------------------------------------------------------------------
\* The session of a request  (app/database.py: get_session)
\* ------------------------------------------------------------------------
\* get_session is a generator: the framework runs it up to its yield before
\* the handler, and resumes it when the request ends, by next() after a
\* handler that returned and by throw() of the exception after a handler or
\* a later dependency that raised.

\* Session(engine): a session that has not yet asked the pool for a connection
NewSession == "new"

\* session.exec(...), session.commit(): the first statement begins the
\* transaction on a connection of the pool
Execute(session) == IF session = "new" THEN "active" ELSE session

\* Session.__exit__ / Session.close(): the connection goes back to the pool
Close(session) == "closed"

\* lines 43-44 up to the yield: [session, extra]
get_session_enter == [session |-> NewSession, extra |-> "none"]

\* A get_session that yields Session(engine) outside a with block.
get_session_unscoped(resumed_by, session) ==
    [session |-> session, extra |-> "none"]

\* Lines 44-47 from the yield on: [session, extra].  Both resumptions leave
\* the with block, whose exit closes the session.  After next() the
\* generator goes on to lines 45-47, constructs SessionLocal() and returns
\* it; the framework drops the value, and the session, never used and never
\* closed, stays without a connection.  After throw() the exception leaves
\* the generator at the with block and lines 45-47 are not run.
get_session(resumed_by, session) ==
    IF resumed_by = "next"
        THEN [session |-> Close(session), extra |-> NewSession]
        ELSE [session |-> Close(session), extra |-> "none"]

\* ------------------------------------------------------------------------
\* Steps of a request that depends on get_session
\* ------------------------------------------------------------------------
\* how a handler ends: it returns, it raises an HTTPException (as a later
\* dependency may), or it raises any other exception
Paths == {"return", "HTTPException", "Exception"}

\* a request arrives at worker p: Depends(get_session) runs to the yield
BeginRequest(p) ==
    /\ scope[p].pc \in {"idle", "done"}
    /\ scope' = [scope EXCEPT ![p] =
                    [NoScope EXCEPT !.pc = "handling",
                                    !.session = get_session_enter.session,
                                    !.extra = get_session_enter.extra]]
    /\ UNCHANGED <<users, categories, products, now, held, last, slugIn, slugOut,
                   listed, inflight>>

\* a dependency or the handler runs a statement on the session
RunStatement(p) ==
    /\ scope[p].pc = "handling"
    /\ scope' = [scope EXCEPT ![p].session = Execute(scope[p].session),
                              ![p].used = TRUE]
    /\ UNCHANGED <<users, categories, products, now, held, last, slugIn, slugOut,
                   listed, inflight>>

\* the handler ends
EndHandler(p, path) ==
    /\ scope[p].pc = "handling"
    /\ scope' = [scope EXCEPT ![p].pc = "ended", ![p].path = path]
    /\ UNCHANGED <<users, categories, products, now, held, last, slugIn, slugOut,
                   listed, inflight>>

\* the framework leaves the dependency and answers
EndRequest(p) ==
    LET resumed_by == IF scope[p].path = "return" THEN "next" ELSE "throw"
        r == get_session(resumed_by, scope[p].session)
        outcome == CASE scope[p].path = "return" -> Returned("", 0)
                     [] scope[p].path = "HTTPException" -> Raised(400, "")
                     [] OTHER -> Unhandled
    IN  /\ scope[p].pc = "ended"
        /\ scope' = [scope EXCEPT ![p].pc = "done", ![p].session = r.session,
                                  ![p].extra = r.extra]
        /\ last' = Response("request", outcome, 200)
        /\ UNCHANGED <<users, categories, products, now, held, slugIn, slugOut,
                       listed, inflight>>

SessionNext ==
    \/ \E p \in Procs : BeginRequest(p)
    \/ \E p \in Procs : RunStatement(p)
    \/ \E p \in Procs, path \in Paths : EndHandler(p, path)
    \/ \E p \in Procs : EndRequest(p)

SpecSession == Init /\ [][SessionNext]_vars

\* ------------------------------------------------------------------------
\* Properties of the token service
\* ------------------------------------------------------------------------
\* C1: a token issued for a subject with a positive ttl decodes, at any time
\* before its expiry, to exactly that subject.
C1_TokenRoundTrip ==
    (/\ held.sub \in Usernames
     /\ held.delta.given /\ held.delta.minutes > 0
     /\ now < held.at + held.delta.minutes)
    => decode_access_token(held.tok, now) = Returned(held.sub, 0)

\* C1: a token issued a minute ago with two minutes to live decodes
C1_Witness ==
    /\ held.sub \in Usernames
    /\ held.delta = Delta(2)
    /\ now = held.at + 1
    /\ decode_access_token(held.tok, now).username = held.sub

\* C2 as stated: from the instant now = exp on, verification of the token
\* fails.
C2_RejectedFromExpiryOn ==
    (held.tok # NoToken /\ now >= held.tok.claims.exp)
    => decode_access_token(held.tok, now).status = 401

\* C2 as amended: once now > exp, verification fails with the 401 of an
\* invalid token, and so does every request that presents the token; a token
\* issued with ttl = -1 is in that case from its issuance on.
C2_RejectedAfterExpiry ==
    (held.tok # NoToken /\ now > held.tok.claims.exp)
    => /\ decode_access_token(held.tok, now) = Raised(401, "Token invalido")
       /\ (last.op \in {"me", "deactivate"} /\ last.cred = "held")
              => (last.status = 401 /\ last.detail = "Token invalido")

\* C2: a request presents a token issued with ttl = -1 for a registered user
C2_Witness ==
    /\ held.delta = Delta(-1)
    /\ get_user_by_username(users, held.sub) # 0
    /\ last.op = "me" /\ last.cred = "held"
    /\ last.status = 401

\* C3 as stated: a request whose token verifies but names no stored user is
\* answered exactly as a request whose token fails verification.
C3_FailuresIndistinguishable ==
    (/\ last.op = "me" /\ last.cred = "held"
     /\ decode_access_token(held.tok, now).status = 0
     /\ get_user_by_username(users, held.tok.claims.sub) = 0)
    => LET invalid == get_current_user(ForgedToken, users, now)
       IN  last.status = invalid.status /\ last.detail = invalid.detail

\* ------------------------------------------------------------------------
\* Properties of login and registration
\* ------------------------------------------------------------------------
HasUser(username) == get_user_by_username(users, username) # 0

UserNamed(username) == users[get_user_by_username(users, username)]

\* the latest step is a login with the password the user registered with
LoginWithRightPassword ==
    /\ last.op = "login"
    /\ HasUser(last.username)
    /\ verify_password(last.password, UserNamed(last.username).hashed_password)

C6_BadLoginUnauthorized ==
    (last.op = "login" /\ ~LoginWithRightPassword)
    => /\ last.status = 401
       /\ last.detail = "Username ou senha incorretos"
       /\ last.token = NoToken

\* C7 as stated: a login with the username and the password of a stored user
\* returns a token whose subject is that username.
C7_LoginIssuesToken ==
    LoginWithRightPassword
    => /\ last.status = 200
       /\ last.token # NoToken
       /\ decode_access_token(last.token, now) = Returned(last.username, 0)

\* no two users share a username or an email
UsersUnique ==
    \A i, j \in 1..Len(users) :
        i # j => /\ users[i].username # users[j].username
                 /\ users[i].email # users[j].email

\* a registration of a username or email already stored is answered 400 and
\* changes nothing, any other registration stores the user
RegisterContract ==
    last'.op = "register" =>
        \A username \in Usernames, email \in Emails, password \in Passwords :
            Register(username, email, password)
            => IF \E i \in 1..Len(users) :
                      users[i].username = username \/ users[i].email = email
                   THEN last'.status = 400 /\ users' = users
                   ELSE /\ last'.status = 200
                        /\ users' = Append(users, NewUser(username, email, password))

\* C8: no two users ever share a username or an email; a registration of a
\* username or email already stored is answered 400 and changes nothing, any
\* other registration stores the user.
C8_UniqueUsers == []UsersUnique /\ [][RegisterContract]_vars

\* C8: a second registration of a stored username has just been refused
C8_Witness ==
    /\ last.op = "register"
    /\ last.status = 400
    /\ Len(users) >= 1
    /\ HasUser(last.username)

\* ------------------------------------------------------------------------
\* Properties of generate_slug
\* ------------------------------------------------------------------------
\* C9: generate_slug(generate_slug(x)) = generate_slug(x) for every x.
C9_SlugIdempotent ==
    Len(slugOut) = 2 => slugOut[2] = slugOut[1]

\* C9: a name that generate_slug changes, slugified twice
C9_Witness ==
    /\ Len(slugOut) = 2
    /\ slugOut[1] # slugIn
    /\ slugOut[1] # <<>>
    /\ slugOut[1] = generate_slug(slugIn)

\* ------------------------------------------------------------------------
\* Properties of the category routes
\* ------------------------------------------------------------------------
CategoryOps == {"create_category", "update_category", "delete_category"}

\* the credentials are a token that verifies and names a stored user
TokenNamesUser(cred) ==
    /\ cred # "none"
    /\ decode_access_token(Presented(cred), now).status = 0
    /\ HasUser(Presented(cred).claims.sub)

\* ... and that user is active
CallerIsActive(cred) ==
    /\ TokenNamesUser(cred)
    /\ UserNamed(Presented(cred).claims.sub).is_active

\* One step of a category route as C4 states it: the table changes only for
\* an active caller; an inactive caller is answered 400, a caller without a
\* valid token 401, and neither changes the table.
C4_Step ==
    last'.op \in CategoryOps =>
        /\ categories' # categories => CallerIsActive(last'.cred)
        /\ (TokenNamesUser(last'.cred) /\ ~CallerIsActive(last'.cred))
               => (last'.status = 400 /\ last'.detail = "Usuario inativo"
                   /\ categories' = categories)
        /\ ~TokenNamesUser(last'.cred)
               => (last'.status = 401 /\ categories' = categories)

\* C4 as stated: every create, update and delete of a category changes the
\* table only for an active caller, answers an inactive caller 400 and a
\* caller without a valid token 401.
C4_OnlyActiveCallersWrite == [][C4_Step]_vars

\* The same step, except that an update or delete of a category id that is
\* not in the table is answered 404 whatever the credentials are.
C4_StepAmended ==
    last'.op \in CategoryOps =>
        /\ categories' # categories => CallerIsActive(last'.cred)
        /\ ~CallerIsActive(last'.cred) => categories' = categories
        /\ IF last'.op # "create_category" /\ CategoryIndex(categories, last'.cat) = 0
               THEN last'.status = 404
               ELSE /\ (TokenNamesUser(last'.cred) /\ ~CallerIsActive(last'.cred))
                           => (last'.status = 400 /\ last'.detail = "Usuario inativo")
                    /\ ~TokenNamesUser(last'.cred) => last'.status = 401

\* C4 as amended: a category step changes the table only for an active
\* caller; an update or delete of a category id that is not in the table is
\* answered 404, any other step 400 to an inactive caller and 401 to a caller
\* without a valid token.
C4_OnlyActiveCallersWriteOr404 == [][C4_StepAmended]_vars

\* C4: an active caller has just deleted a category
C4_Witness ==
    /\ last.op = "delete_category"
    /\ last.status = 204
    /\ CallerIsActive(last.cred)
    /\ CategoryIndex(categories, last.cat) = 0

\* no two categories share a name or a slug
CategoriesUnique ==
    \A i, j \in 1..Len(categories) :
        i # j => /\ categories[i].name # categories[j].name
                 /\ categories[i].slug # categories[j].slug

NameHeldByOther(name, own_id) ==
    \E i \in 1..Len(categories) : categories[i].id # own_id /\ categories[i].name = name

SlugHeldByOther(slug, own_id) ==
    \E i \in 1..Len(categories) : categories[i].id # own_id /\ categories[i].slug = slug

\* One create or rename by an active caller as C10 states it: to a name
\* another category holds it is answered DuplicateName, to a slug another
\* category holds DuplicateSlug, and changes nothing; a create with a fresh
\* name and a fresh, non-empty slug is answered 201 and stores the category.
C10_Step ==
    (/\ last'.op \in {"create_category", "update_category"}
     /\ last'.kind = "str"
     /\ generate_slug(last'.name) # <<>>
     /\ CallerIsActive(last'.cred)
     /\ last'.op = "update_category" => /\ CategoryIndex(categories, last'.cat) # 0
                                        /\ categories[CategoryIndex(categories, last'.cat)].name
                                               # last'.name)
    => LET own_id == IF last'.op = "update_category" THEN last'.cat ELSE 0
       IN  IF NameHeldByOther(last'.name, own_id)
               THEN /\ last'.status = 400
                    /\ last'.detail = "Ja existe uma categoria com o nome"
                    /\ categories' = categories
           ELSE IF SlugHeldByOther(generate_slug(last'.name), own_id)
               THEN /\ last'.status = 400
                    /\ last'.detail = "Ja existe uma categoria com o slug"
                    /\ categories' = categories
           ELSE last'.op = "create_category"
                    => /\ last'.status = 201
                       /\ \E i \in 1..Len(categories') : categories'[i].name = last'.name

\* C10 as stated: names and slugs stay unique, duplicates are refused with
\* DuplicateName or DuplicateSlug, and a create with a fresh name and slug
\* stores the category.
C10_UniqueNamesAndSlugs == [][C10_Step /\ CategoriesUnique']_vars

\* One delete of a stored category by an active caller: with products that
\* refer to the category it is refused with the number of those products and
\* removes nothing; with none it is answered 204 and the category is gone.
C11_Step ==
    (/\ last'.op = "delete_category"
     /\ CallerIsActive(last'.cred)
     /\ CategoryIndex(categories, last'.cat) # 0)
    => LET product_count == ProductCount(products, last'.cat)
       IN  IF product_count > 0
               THEN /\ last'.status = 400
                    /\ last'.detail = DeleteRefusal(product_count)
                    /\ categories' = categories
                    /\ products' = products
               ELSE /\ last'.status = 204
                    /\ categories' = RemoveAt(categories, CategoryIndex(categories, last'.cat))
                    /\ products' = products

\* C11: a delete of a category that products refer to fails with an error
\* that names the number of those products and leaves the category and the
\* products stored; a delete of a category no product refers to succeeds and
\* removes the category.
C11_DeleteBlockedByProducts == [][C11_Step]_vars

\* C11: the delete of a category with two products has just been refused
C11_Witness ==
    /\ last.op = "delete_category"
    /\ last.status = 400
    /\ last.detail = DeleteRefusal(2)
    /\ CategoryIndex(categories, last.cat) # 0
    /\ ProductCount(products, last.cat) = 2

\* C18: every stored category's slug is generate_slug of its current name.
C18_SlugOfName ==
    \A i \in 1..Len(categories) : categories[i].slug = generate_slug(categories[i].name)

\* C18: a category has just been renamed to a name no category started with
C18_Witness ==
    /\ last.op = "update_category"
    /\ last.status = 200
    /\ last.name = <<"!">>
    /\ categories[CategoryIndex(categories, last.cat)].name = last.name
    /\ categories[CategoryIndex(categories, last.cat)].slug = generate_slug(last.name)

Duplicates == {"Ja existe uma categoria com o nome", "Ja existe uma categoria com o slug"}

\* One update of a stored category by an active caller as C19 states it.
C19_Step ==
    (/\ last'.op = "update_category"
     /\ CallerIsActive(last'.cred)
     /\ CategoryIndex(categories, last'.cat) # 0)
    => LET category == CategoryIndex(categories, last'.cat)
           stored == categories[category]
           no_name == last'.kind \in {"absent", "unset"}
           same_name == last'.kind = "str" /\ last'.name = stored.name
           renamed == last'.kind = "str" /\ last'.name # stored.name
       IN  /\ (no_name \/ same_name)
                  => /\ last'.detail \notin Duplicates
                     /\ categories' = categories
           /\ same_name => last'.status = 200
           /\ (Len(categories') = Len(categories)
                   /\ categories'[category].slug # stored.slug) => renamed
           /\ (/\ renamed
               /\ generate_slug(last'.name) = stored.slug
               /\ ~NameHeldByOther(last'.name, stored.id))
                  => /\ last'.status = 200
                     /\ categories' = [categories EXCEPT ![category].name = last'.name]

\* C19: an update whose name is the stored name, or that carries no name,
\* never fails with DuplicateName or DuplicateSlug and changes neither name
\* nor slug; the slug changes only when the proposed name differs from the
\* stored one; a rename to another name with the category's own slug is not
\* refused as a duplicate of itself.
C19_UpdateDoesNotSelfConflict == [][C19_Step]_vars

\* C19: an update to a-acute, whose slug "a" is the category's own, answered
\* 200 while another category is stored beside it
C19_Witness ==
    /\ last.op = "update_category"
    /\ last.status = 200
    /\ last.name = <<"U+00E1">>
    /\ Len(categories) = 2
    /\ categories[CategoryIndex(categories, last.cat)].name = last.name
    /\ categories[CategoryIndex(categories, last.cat)].slug = <<"a">>

\* C20 as stated: every stored category has a slug of 1 to 120 characters.
C20_SlugNeverEmpty ==
    \A i \in 1..Len(categories) :
        Len(categories[i].slug) >= 1 /\ Len(categories[i].slug) <= 120

\* ------------------------------------------------------------------------
\* Properties of the listing routes
\* ------------------------------------------------------------------------
\* The products that satisfy every filter the query supplies, price_max
\* among them, and that are active unless the query says is_active.
Satisfying(query) ==
    {i \in 1..Len(products) :
        LET p == products[i]
        IN  /\ query.search # <<>>
                   => \/ ILike(p.nome, query.search)
                      \/ ILike(p.descricao, query.search)
                      \/ ILike(p.franquia, query.search)
            /\ query.category_id # 0 => p.category_id = query.category_id
            /\ query.franquia_id # <<>> => ILike(p.franquia, query.franquia_id)
            /\ query.price_min # NoPrice => p.preco >= query.price_min
            /\ query.price_max # NoPrice => p.preco <= query.price_max
            /\ IF query.is_active.given
                   THEN p.is_active = query.is_active.value
                   ELSE p.is_active}

Rows(items) == {items[i] : i \in 1..Len(items)}

\* C12 as stated: a product listing is answered with products that satisfy
\* every supplied filter, and counts exactly those products; a listing of the
\* whole set in one page returns exactly them.
C12_FilterConjunction ==
    last.op = "list_products"
    => LET satisfying == {products[i] : i \in Satisfying(listed.params)}
       IN  /\ last.status = 200
           /\ Rows(listed.body.items) \subseteq satisfying
           /\ listed.body.total = Cardinality(satisfying)
           /\ (listed.params.skip = 0 /\ listed.params.limit >= Len(products))
                  => Rows(listed.body.items) = satisfying

\* the size of the set a listing pages through
FilteredSize ==
    IF last.op = "list_products"
        THEN Len(Select(products, ProductFilterParams(listed.params)))
        ELSE Len(categories)

PageSizeRight ==
    LET skip == listed.params.skip
        limit == listed.params.limit
        rest == IF FilteredSize - skip > 0 THEN FilteredSize - skip ELSE 0
    IN  /\ last.status = 200
        /\ Len(listed.body.items) = Min(limit, rest)
        /\ listed.body.total = FilteredSize

\* C13 as stated: a listing of products or of categories returns
\* min(limit, max(0, T - skip)) items and total = T, T being the size of the
\* filtered set.
C13_PaginationInvariant ==
    last.op \in {"list_products", "list_categories"} => PageSizeRight

\* the part of C13 that is about the product listing
C13_ProductPagination ==
    last.op = "list_products" => PageSizeRight

OrderFields == {"nome", "preco", "created_at"}

\* C14 as stated: a product listing that asks for an order field outside the
\* whitelist is answered with an error, not with a listing.
C14_UnknownOrderRejected ==
    (last.op = "list_products" /\ listed.params.order_by \notin OrderFields)
    => last.status \in {400, 422}

OrderKey(p, order_by) == IF order_by = "preco" THEN p.preco ELSE p.created_at

InOrder(a, b, order_by, order_direction) ==
    IF order_direction = "asc"
        THEN OrderKey(a, order_by) <= OrderKey(b, order_by)
        ELSE OrderKey(a, order_by) >= OrderKey(b, order_by)

\* C15 as stated: the items of a product listing are in the requested order,
\* no filtered product left out of the page comes between two of them, and
\* at most skip filtered products come before them.
C15_OrderedThenSliced ==
    (/\ last.op = "list_products"
     /\ last.status = 200
     /\ listed.params.order_by \in {"preco", "created_at"})
    => LET order_by == listed.params.order_by
           direction == listed.params.order_direction
           items == listed.body.items
           filtered == Rows(Select(products, ProductFilterParams(listed.params)))
           others == filtered \ Rows(items)
           skipped == {r \in others : \A i \in 1..Len(items) :
                                          InOrder(r, items[i], order_by, direction)}
       IN  /\ \A i, j \in 1..Len(items) :
                  i < j => InOrder(items[i], items[j], order_by, direction)
           /\ \A r \in others \ skipped : \A i \in 1..Len(items) :
                  InOrder(items[i], r, order_by, direction)
           /\ items # <<>> => Cardinality(skipped) >= Min(listed.params.skip, Cardinality(others))

\* C16 as stated: a quick search with a term of 1 to 100 characters and a
\* limit in 1..50 is answered with at most limit products, each of them
\* active and with the term in its nome, descricao or franquia.
C16_QuickSearch ==
    last.op = "search_products"
    => /\ last.status = 200
       /\ Len(listed.body.items) <= listed.params.limit
       /\ \A i \in 1..Len(listed.body.items) :
              LET p == listed.body.items[i]
              IN  /\ p.is_active
                  /\ \/ ILike(p.nome, listed.params.q)
                     \/ ILike(p.descricao, listed.params.q)
                     \/ ILike(p.franquia, listed.params.q)

\* ------------------------------------------------------------------------
\* Properties of concurrent writes
\* ------------------------------------------------------------------------
\* the pending write of p is of a value that a stored row holds by now
LosesRace(p) ==
    \/ /\ inflight[p].op = "register"
       /\ \E i \in 1..Len(users) : \/ users[i].username = inflight[p].username
                                    \/ users[i].email = inflight[p].email
    \/ /\ inflight[p].op = "update_category"
       /\ \/ NameHeldByOther(inflight[p].name, inflight[p].cat)
          \/ SlugHeldByOther(generate_slug(inflight[p].name), inflight[p].cat)

\* the commit of a write that lost the race stores nothing
LoserStoresNothing ==
    \A p \in Procs :
        (inflight[p] # NoWrite /\ inflight'[p] = NoWrite /\ LosesRace(p))
        => (users' = users /\ categories' = categories)

\* ... and is answered with a conflict
LoserToldConflict ==
    \A p \in Procs :
        (inflight[p] # NoWrite /\ inflight'[p] = NoWrite /\ LosesRace(p))
        => last'.status \in {400, 409}

\* C17 as stated: of two writes that both passed the uniqueness check for
\* one value at most one is stored, and the commit of the other is answered
\* with a conflict (400 or 409).
C17_RaceReportedAsConflict ==
    [][UsersUnique' /\ CategoriesUnique' /\ LoserStoresNothing /\ LoserToldConflict]_vars

\* the part of C17 that is about the store
C17_AtMostOneWriteStored ==
    [][UsersUnique' /\ CategoriesUnique' /\ LoserStoresNothing]_vars

\* ------------------------------------------------------------------------
\* Properties of the session scope
\* ------------------------------------------------------------------------
\* the sessions constructed for the request of p that hold a connection
HeldOpen(p) == {k \in {"session", "extra"} : scope[p][k] = "active"}

====
